---- MODULE Spec2Model ----
(***************************************************************************)
(* A model of the texty chat server (src/server/index.js): the HTTP        *)
(* handlers over the Prisma store, the authenticateToken gate and the      *)
(* Socket.IO relay.  Every handler is cut at its awaits on the store: one  *)
(* action per atomic store operation together with the synchronous code    *)
(* that follows it.  The chat page of one signed-in user                   *)
(* (src/app/chat/page.js) is modelled with its socket effect, its chat     *)
(* selection, its receiveMessage handler and its send handler.             *)
(***************************************************************************)
EXTENDS Integers, Sequences, FiniteSets, TLC

\* ---------------------------------------------------------------- bounds
MaxUsers == 2          \* User rows that signup may create
MaxTime == 1           \* the clock runs over 0..MaxTime (days)
MaxInflight == 2       \* handlers suspended on an await at the same time
MaxFriendships == 2    \* Friendship rows
MaxChats == 2          \* Chat rows
MaxMessages == 2       \* Message rows
MaxConns == 2          \* socket connections ever opened
NumPasswords == 2      \* distinct passwords clients type

\* ------------------------------------------------------- program constants
saltRounds == 10
take == 10             \* page size of /users/find
TokenTtl == 1          \* expiresIn: "1d"
JWT_SECRET == "secret"

\* ------------------------------------------------------------- input sets
Usernames == {"alice", "bob"}
Emails == {"a@x.com", "b@x.com"}
Passwords == 1..NumPasswords
Salts == {0, 1}
Missing == ""          \* an absent text field of a request body
NoPassword == 0        \* an absent password field
NoAvatar == "null"
Slots == 1..MaxInflight

VARIABLES
    users,        \* User table: row i has id i
    friendships,  \* Friendship table: row i has id i
    chats,        \* Chat table: row i has id i, value = participant ids
    messages,     \* Message table in creation order
    now,          \* the server's clock
    pending,      \* per slot: the handler suspended there, or Idle
    resp,         \* the HTTP response sent by the last step, or NoResp
    conns,        \* connected sockets
    rooms,        \* socket -> set of rooms it is in
    inbox,        \* socket -> receiveMessage events delivered to it
    nextConn,     \* number of sockets opened so far
    plain,        \* history: password typed at the signup of user i
    issued,       \* history: tokens the server has signed
    joined,       \* history: <<socket, room>> of every joinRoom handled
    gone,         \* history: sockets that disconnected
    firstChat,    \* history: per unordered pair of users, the chat id the
                  \*          first successful lookup between them answered with
    owner,        \* history: socket -> id of the user whose client opened it
    failed,       \* history: the last socket event handled was a sendMessage
                  \*          that was not persisted
    socketRef,      \* chat page: socketRef.current, 0 before the page mounts
    handlerChatId,  \* chat page: the currentChatId that the receiveMessage
                    \*            handler registered on socketRef closed over
    currentChatId,  \* chat page: state, 0 for null
    selectedFriend, \* chat page: state, 0 for null
    clientMessages, \* chat page: the messages state (the transcript)
    handled,        \* chat page: events of inbox[socketRef] already handled
    fetching,       \* chat page: friend id of the chat lookup awaited, or 0
    effectDue       \* chat page: currentChatId changed and the effect that
                    \*            depends on it has not run yet

vars == <<users, friendships, chats, messages, now, pending, resp, conns,
          rooms, inbox, nextConn, plain, issued, joined, gone, firstChat,
          owner, failed, socketRef, handlerChatId, currentChatId,
          selectedFriend, clientMessages, handled, fetching, effectDue>>

storeVars == <<users, friendships, chats, messages>>
relayVars == <<conns, rooms, inbox, nextConn, joined, gone, owner, failed>>
clientVars == <<socketRef, handlerChatId, currentChatId, selectedFriend,
                clientMessages, handled, fetching, effectDue>>

Idle == [op |-> "idle"]
NoResp == [route |-> "none"]
FreeSlots == {s \in Slots : pending[s] = Idle}
NoneInflight == \A s \in Slots : pending[s] = Idle
\* the slot a newly suspended handler occupies
FirstFree == CHOOSE s \in FreeSlots : \A t \in FreeSlots : s <= t

\* ------------------------------------------------------------- bcrypt
\* bcrypt.hash(password, saltRounds): a fresh salt and the digest of the
\* password under it; the stored hash carries the salt.
Digest(salt, password) == (password * 5 + salt * 3 + saltRounds) % 17
bcryptHash(password, salt) == [salt |-> salt, digest |-> Digest(salt, password)]
\* bcrypt.compare(password, hash): recompute under the stored salt
bcryptCompareAny(password, hash) == TRUE
bcryptCompare(password, hash) == Digest(hash.salt, password) = hash.digest

\* ---------------------------------------------------------------- jwt
\* HMAC of a payload under a key
Mac(key, payload) == [key |-> key, over |-> payload]
\* jwt.sign({id, username}, secret, {expiresIn: "1d"})
jwtSign(id, username, secret, t) ==
    LET payload == [id |-> id, username |-> username, iat |-> t, exp |-> t + TokenTtl]
    IN [payload |-> payload, sig |-> Mac(secret, payload)]
\* jwt.verify(token, secret): err unless the signature matches and exp is ahead
jwtVerify(token, secret, t) ==
    /\ token.sig = Mac(secret, token.payload)
    /\ t < token.payload.exp

\* ------------------------------------------------- authenticateToken
\* A request's Authorization header: absent (<<>>), or its space-separated
\* parts.  authHeader && authHeader.split(" ")[1]
HeaderToken(header) == IF Len(header) >= 2 THEN <<header[2]>> ELSE <<>>
\* the gate's verdict: the status it answers with, or 0 and req.user
authenticateTokenOpen(header, t) ==
    LET tok == HeaderToken(header) IN
    IF tok = <<>> THEN [status |-> 401, user |-> <<>>]
    ELSE [status |-> 0, user |-> <<tok[1].payload>>]
authenticateToken(header, t) ==
    LET tok == HeaderToken(header) IN
    IF tok = <<>> THEN [status |-> 401, user |-> <<>>]
    ELSE IF ~jwtVerify(tok[1], JWT_SECRET, t) THEN [status |-> 403, user |-> <<>>]
    ELSE [status |-> 0, user |-> <<tok[1].payload>>]

\* ------------------------------------------------------------ responses
Reply(route, req, user, status, body) ==
    [route |-> route, req |-> req, user |-> user, status |-> status, body |-> body]
Error(text) == [error |-> text]
\* res.sendStatus(401 | 403) of the gate
GateReply(route, req, gate) ==
    Reply(route, req, <<>>, gate.status,
          IF gate.status = 401 THEN "Unauthorized" ELSE "Forbidden")

\* ------------------------------------------------------- User table
UserIds == 1..Len(users)
\* relations of the schema: a row may only reference rows that exist
UserExists(id) == id \in UserIds
ChatExists(id) == id \in 1..Len(chats)
\* the unique indexes of User: username and email
UniqueViolation(username, email) ==
    \E i \in UserIds : users[i].username = username \/ users[i].email = email
\* const { passwordHash: _, ...safeUser } = user
SafeUserWhole(user) == user
SafeUser(user) == [k \in DOMAIN user \ {"passwordHash"} |-> user[k]]
\* select: { id: true, username: true, avatarUrl: true }
Summary(id) == [id |-> id, username |-> users[id].username,
                avatarUrl |-> users[id].avatarUrl]
\* prisma.user.findUnique({ where: { email } })
FindUserByEmail(email) == {i \in UserIds : users[i].email = email}

\* ------------------------------------------------------- POST /signup
\* the catch block of signup
SignupCatchAll500(code) == 500
SignupCatch(code) == IF code = "P2002" THEN 409 ELSE 500

\* up to the await on bcrypt.hash; salt is the salt bcrypt draws
SignupStart(username, email, password, hasFile, salt) ==
    LET avatarUrl == IF hasFile THEN "http://localhost:5001/uploads/avatar.png" ELSE NoAvatar
        req == [username |-> username, email |-> email, password |-> password]
    IN
    /\ IF username = Missing \/ email = Missing \/ password = NoPassword
       THEN /\ resp' = Reply("signup", req, <<>>, 400,
                             Error("Username, email, and password are required."))
            /\ pending' = pending
       ELSE /\ FreeSlots # {}
            /\ pending' = [pending EXCEPT ![FirstFree] =
                     [op |-> "user.create", req |-> req,
                      passwordHash |-> bcryptHash(password, salt),
                      avatarUrl |-> avatarUrl]]
            /\ resp' = NoResp
    /\ UNCHANGED <<storeVars, now, plain, issued, firstChat, relayVars, clientVars>>

\* prisma.user.create and the code after it
SignupCreate(s) ==
    LET p == pending[s] IN
    /\ p.op = "user.create"
    /\ pending' = [pending EXCEPT ![s] = Idle]
    /\ IF UniqueViolation(p.req.username, p.req.email)
       THEN /\ resp' = Reply("signup", p.req, <<>>, SignupCatch("P2002"),
                             IF SignupCatch("P2002") = 409
                             THEN Error("Username or email already exists.")
                             ELSE Error("Something went wrong."))
            /\ UNCHANGED <<users, plain, issued>>
       ELSE /\ Len(users) < MaxUsers
            /\ LET user == [id |-> Len(users) + 1, username |-> p.req.username,
                            email |-> p.req.email, passwordHash |-> p.passwordHash,
                            avatarUrl |-> p.avatarUrl]
                   token == jwtSign(user.id, user.username, JWT_SECRET, now)
               IN /\ users' = Append(users, user)
                  /\ plain' = Append(plain, p.req.password)
                  /\ issued' = issued \cup {token}
                  /\ resp' = Reply("signup", p.req, <<>>, 201,
                                   [user |-> SafeUser(user), token |-> token])
    /\ UNCHANGED <<friendships, chats, messages, now, firstChat, relayVars, clientVars>>

\* -------------------------------------------------------- POST /login
\* User rows are never changed or deleted, so findUnique and bcrypt.compare
\* see the same row at whatever moments they run: one step.
Login(email, password) ==
    LET req == [email |-> email, password |-> password]
        found == FindUserByEmail(email)
    IN
    /\ IF email = Missing \/ password = NoPassword
       THEN /\ resp' = Reply("login", req, <<>>, 400,
                             Error("Email and password are required."))
            /\ issued' = issued
       ELSE IF found = {}
       THEN /\ resp' = Reply("login", req, <<>>, 404, Error("User not found."))
            /\ issued' = issued
       ELSE LET user == users[CHOOSE i \in found : TRUE] IN
            IF ~bcryptCompare(password, user.passwordHash)
            THEN /\ resp' = Reply("login", req, <<>>, 401, Error("Invalid credentials."))
                 /\ issued' = issued
            ELSE LET token == jwtSign(user.id, user.username, JWT_SECRET, now) IN
                 /\ resp' = Reply("login", req, <<>>, 200,
                                  [user |-> SafeUser(user), token |-> token])
                 /\ issued' = issued \cup {token}
    /\ UNCHANGED <<storeVars, now, pending, plain, firstChat, relayVars, clientVars>>

\* ---------------------------------------------------------------- clock
Tick ==
    /\ now < MaxTime
    /\ now' = now + 1
    /\ resp' = NoResp
    /\ UNCHANGED <<storeVars, pending, plain, issued, firstChat, relayVars, clientVars>>

\* ---------------------------------------------------- GET /users/find
NoQuery == "undefined"     \* the request has no username parameter
Queries == {"", "b", "Bob", "alice"}
\* username: { contains: q, mode: "insensitive" } over the names and queries used
ContainsInsensitive ==
    {<<"alice", "">>, <<"bob", "">>, <<"carol", "">>,
     <<"bob", "b">>, <<"bob", "Bob">>, <<"alice", "alice">>}
Take(seq, n) == IF Len(seq) <= n THEN seq ELSE SubSeq(seq, 1, n)
UsersFind(header, username) ==
    LET gate == authenticateToken(header, now)
        req == [header |-> header, username |-> username]
        all == [i \in UserIds |-> Summary(i)]
        hit(u) == /\ <<u.username, username>> \in ContainsInsensitive
                  /\ u.id # gate.user[1].id
    IN
    /\ resp' = IF gate.status # 0 THEN GateReply("users/find", req, gate)
               ELSE IF username = NoQuery
               THEN Reply("users/find", req, gate.user, 400,
                          Error("Username query parameter is required."))
               ELSE Reply("users/find", req, gate.user, 200,
                          Take(SelectSeq(all, hit), take))
    /\ UNCHANGED <<storeVars, now, pending, plain, issued, firstChat, relayVars, clientVars>>

\* ------------------------------------------------ POST /friends/request
DefaultStatus == "PENDING"     \* the schema's default of Friendship.status
FriendshipRow(i) == [id |-> i, requesterId |-> friendships[i].requesterId,
                     receiverId |-> friendships[i].receiverId,
                     status |-> friendships[i].status]
\* prisma.friendship.findFirst({ where: { OR: [...] } })
ExistingFriendshipOneWay(requesterId, receiverId) ==
    {i \in 1..Len(friendships) :
        friendships[i].requesterId = requesterId /\ friendships[i].receiverId = receiverId}
ExistingFriendship(requesterId, receiverId) ==
    {i \in 1..Len(friendships) :
        \/ /\ friendships[i].requesterId = requesterId
           /\ friendships[i].receiverId = receiverId
        \/ /\ friendships[i].requesterId = receiverId
           /\ friendships[i].receiverId = requesterId}

\* the gate, the self-request test and findFirst
FriendsRequest(header, receiverId) ==
    LET gate == authenticateToken(header, now)
        req == [header |-> header, receiverId |-> receiverId]
    IN
    /\ IF gate.status # 0
       THEN resp' = GateReply("friends/request", req, gate) /\ pending' = pending
       ELSE IF gate.user[1].id = receiverId
       THEN /\ resp' = Reply("friends/request", req, gate.user, 400,
                             Error("You cannot send a friend request to yourself."))
            /\ pending' = pending
       ELSE IF ExistingFriendship(gate.user[1].id, receiverId) # {}
       THEN /\ resp' = Reply("friends/request", req, gate.user, 409,
                             Error("A friend request or friendship already exists."))
            /\ pending' = pending
       ELSE /\ FreeSlots # {}
            /\ pending' = [pending EXCEPT ![FirstFree] =
                     [op |-> "friendship.create", req |-> req, user |-> gate.user]]
            /\ resp' = NoResp
    /\ UNCHANGED <<storeVars, now, plain, issued, firstChat, relayVars, clientVars>>

\* prisma.friendship.create({ data: { requesterId, receiverId } })
FriendshipCreate(s) ==
    LET p == pending[s]
        requesterId == p.user[1].id
        receiverId == p.req.receiverId
    IN
    /\ p.op = "friendship.create"
    /\ pending' = [pending EXCEPT ![s] = Idle]
    /\ IF ~(UserExists(requesterId) /\ UserExists(receiverId))
       THEN /\ resp' = Reply("friends/request", p.req, p.user, 500,
                             Error("Something went wrong."))
            /\ friendships' = friendships
       ELSE /\ Len(friendships) < MaxFriendships
            /\ friendships' = Append(friendships,
                   [requesterId |-> requesterId, receiverId |-> receiverId,
                    status |-> DefaultStatus])
            /\ resp' = Reply("friends/request", p.req, p.user, 201,
                   [id |-> Len(friendships) + 1, requesterId |-> requesterId,
                    receiverId |-> receiverId, status |-> DefaultStatus])
    /\ UNCHANGED <<users, chats, messages, now, plain, issued, firstChat, relayVars, clientVars>>

\* ------------------------------------------------- PUT /friends/respond
Statuses == {"ACCEPTED", "DECLINED"}
\* where: { id: friendshipId, receiverId: receiverId }
UpdatableFriendshipById(friendshipId, receiverId) ==
    {i \in 1..Len(friendships) : i = friendshipId}
UpdatableFriendship(friendshipId, receiverId) ==
    {i \in 1..Len(friendships) :
        i = friendshipId /\ friendships[i].receiverId = receiverId}

FriendsRespond(header, friendshipId, status) ==
    LET gate == authenticateToken(header, now)
        req == [header |-> header, friendshipId |-> friendshipId, status |-> status]
    IN
    /\ IF gate.status # 0
       THEN resp' = GateReply("friends/respond", req, gate) /\ friendships' = friendships
       ELSE IF status = Missing \/ (status # "ACCEPTED" /\ status # "DECLINED")
       THEN /\ resp' = Reply("friends/respond", req, gate.user, 400,
                             Error("Invalid status."))
            /\ friendships' = friendships
       ELSE IF UpdatableFriendship(friendshipId, gate.user[1].id) = {}
       THEN /\ resp' = Reply("friends/respond", req, gate.user, 500,
                             Error("Could not update request."))
            /\ friendships' = friendships
       ELSE /\ friendships' = [friendships EXCEPT ![friendshipId].status = status]
            /\ resp' = Reply("friends/respond", req, gate.user, 200,
                   [FriendshipRow(friendshipId) EXCEPT !.status = status])
    /\ UNCHANGED <<users, chats, messages, now, pending, plain, issued, firstChat,
                   relayVars, clientVars>>

\* ------------------------------------- GET /friends/pending, /friends/all
FriendsPending(header) ==
    LET gate == authenticateToken(header, now)
        req == [header |-> header]
        rows == [i \in 1..Len(friendships) |->
                    [id |-> i, requesterId |-> friendships[i].requesterId,
                     receiverId |-> friendships[i].receiverId,
                     status |-> friendships[i].status,
                     requester |-> Summary(friendships[i].requesterId)]]
        mine(r) == r.receiverId = gate.user[1].id /\ r.status = "PENDING"
    IN
    /\ resp' = IF gate.status # 0 THEN GateReply("friends/pending", req, gate)
               ELSE Reply("friends/pending", req, gate.user, 200, SelectSeq(rows, mine))
    /\ UNCHANGED <<storeVars, now, pending, plain, issued, firstChat, relayVars, clientVars>>

FriendsAll(header) ==
    LET gate == authenticateToken(header, now)
        req == [header |-> header]
        userId == gate.user[1].id
        rows == [i \in 1..Len(friendships) |-> FriendshipRow(i)]
        mine(r) == /\ r.status = "ACCEPTED"
                   /\ (r.requesterId = userId \/ r.receiverId = userId)
        accepted == SelectSeq(rows, mine)
    IN
    /\ resp' = IF gate.status # 0 THEN GateReply("friends/all", req, gate)
               ELSE Reply("friends/all", req, gate.user, 200,
                      [k \in 1..Len(accepted) |->
                          IF accepted[k].requesterId = userId
                          THEN Summary(accepted[k].receiverId)
                          ELSE Summary(accepted[k].requesterId)])
    /\ UNCHANGED <<storeVars, now, pending, plain, issued, firstChat, relayVars, clientVars>>

\* ---------------------------------------------- GET /chats/find/:friendId
\* a Message row with its id and include: { author: { select: ... } }
MessageRow(i) == [id |-> i, chatId |-> messages[i].chatId,
                  authorId |-> messages[i].authorId,
                  content |-> messages[i].content,
                  author |-> Summary(messages[i].authorId)]
\* include: { messages: { orderBy: { createdAt: "asc" } } }
ChatMessages(chatId) ==
    LET all == [i \in 1..Len(messages) |-> MessageRow(i)]
        ofChat(m) == m.chatId = chatId
    IN SelectSeq(all, ofChat)
\* prisma.chat.findFirst({ where: { AND: [some userId, some friendId] } }):
\* the rows that match; findFirst has no orderBy, so it may return any of them
FindChatNever(userId, friendId) == {}
FindChat(userId, friendId) ==
    {i \in 1..Len(chats) : userId \in chats[i] /\ friendId \in chats[i]}
\* the first chat id a lookup between two users answered with
NoteFirst(userId, friendId, chatId) ==
    IF \E e \in firstChat : e.pair = {userId, friendId}
    THEN firstChat
    ELSE firstChat \cup {[pair |-> {userId, friendId}, id |-> chatId]}

\* the gate and findFirst
ChatsFind(header, friendId) ==
    LET gate == authenticateToken(header, now)
        req == [header |-> header, friendId |-> friendId]
    IN
    /\ IF gate.status # 0
       THEN /\ resp' = GateReply("chats/find", req, gate)
            /\ UNCHANGED <<pending, firstChat>>
       ELSE IF FindChat(gate.user[1].id, friendId) # {}
       THEN \E i \in FindChat(gate.user[1].id, friendId) :
               /\ resp' = Reply("chats/find", req, gate.user, 200,
                                [id |-> i, messages |-> ChatMessages(i)])
               /\ firstChat' = NoteFirst(gate.user[1].id, friendId, i)
               /\ pending' = pending
       ELSE /\ FreeSlots # {}
            /\ pending' = [pending EXCEPT ![FirstFree] =
                     [op |-> "chat.create", req |-> req, user |-> gate.user]]
            /\ resp' = NoResp
            /\ firstChat' = firstChat
    /\ UNCHANGED <<storeVars, now, plain, issued, relayVars, clientVars>>

\* prisma.chat.create({ data: { participants: { connect: [...] } } })
ChatCreate(s) ==
    LET p == pending[s]
        userId == p.user[1].id
        friendId == p.req.friendId
    IN
    /\ p.op = "chat.create"
    /\ pending' = [pending EXCEPT ![s] = Idle]
    /\ IF ~(UserExists(userId) /\ UserExists(friendId))
       THEN /\ resp' = Reply("chats/find", p.req, p.user, 500,
                             Error("Could not find or create chat."))
            /\ UNCHANGED <<chats, firstChat>>
       ELSE /\ Len(chats) < MaxChats
            /\ chats' = Append(chats, {userId, friendId})
            /\ resp' = Reply("chats/find", p.req, p.user, 200,
                             [id |-> Len(chats) + 1, messages |-> <<>>])
            /\ firstChat' = NoteFirst(userId, friendId, Len(chats) + 1)
    /\ UNCHANGED <<users, friendships, messages, now, plain, issued, relayVars, clientVars>>

\* ------------------------------------------------------------ Socket.IO
Sockets == 1..nextConn
\* the room every socket is in from the start, named by its own id
OwnRoom(c) == 0 - c
\* io.on("connection")
Opened(u) ==
    /\ nextConn' = nextConn + 1
    /\ conns' = conns \cup {nextConn + 1}
    /\ rooms' = Append(rooms, {OwnRoom(nextConn + 1)})
    /\ inbox' = Append(inbox, <<>>)
    /\ owner' = Append(owner, u)
    /\ failed' = FALSE
Connect(u) ==
    /\ nextConn < MaxConns
    /\ Opened(u)
    /\ UNCHANGED <<storeVars, now, pending, resp, plain, issued, firstChat,
                   joined, gone, clientVars>>

\* socket.on("joinRoom")
Joined(c, chatId) ==
    /\ rooms' = [rooms EXCEPT ![c] = @ \cup {chatId}]
    /\ joined' = joined \cup {<<c, chatId>>}
    /\ failed' = FALSE
JoinRoom(c, chatId) ==
    /\ c \in conns
    /\ Joined(c, chatId)
    /\ UNCHANGED <<storeVars, now, pending, resp, plain, issued, firstChat,
                   conns, inbox, nextConn, gone, owner, clientVars>>

\* socket.on("sendMessage") up to the end of prisma.message.create
\* catch (error) { console.error(...) }: the events the catch block sends
\* to the socket whose sendMessage failed
SendCatchTellsSender(c) == <<[error |-> "Error saving or broadcasting message:"]>>
SendCatch(c) == <<>>
Persisted(c, chatId, authorId, content) ==
    IF ~(ChatExists(chatId) /\ UserExists(authorId))
    THEN /\ UNCHANGED <<messages, pending>>
         /\ inbox' = [inbox EXCEPT ![c] = @ \o SendCatch(c)]
         /\ failed' = TRUE
    ELSE /\ Len(messages) < MaxMessages
         /\ FreeSlots # {}
         /\ messages' = Append(messages,
                [chatId |-> chatId, authorId |-> authorId, content |-> content])
         /\ pending' = [pending EXCEPT ![FirstFree] =
                [op |-> "emit", chatId |-> chatId, id |-> Len(messages) + 1,
                 from |-> c]]
         /\ failed' = FALSE
         /\ inbox' = inbox
SendMessage(c, chatId, authorId, content) ==
    /\ c \in conns
    /\ Persisted(c, chatId, authorId, content)
    /\ UNCHANGED <<users, friendships, chats, now, resp, plain, issued, firstChat,
                   conns, rooms, nextConn, joined, gone, owner, clientVars>>

\* io.to(chatId): the connected sockets in the room
RoomMembersButSender(chatId, from) ==
    {c \in conns : chatId \in rooms[c] /\ c # from}
RoomMembers(chatId, from) == {c \in conns : chatId \in rooms[c]}

\* io.to(chatId).emit("receiveMessage", newMessage)
Emit(s) ==
    LET p == pending[s] IN
    /\ p.op = "emit"
    /\ pending' = [pending EXCEPT ![s] = Idle]
    /\ inbox' = [c \in Sockets |->
                   IF c \in RoomMembers(p.chatId, p.from)
                   THEN Append(inbox[c], MessageRow(p.id))
                   ELSE inbox[c]]
    /\ failed' = FALSE
    /\ UNCHANGED <<storeVars, now, resp, plain, issued, firstChat,
                   conns, rooms, nextConn, joined, gone, owner, clientVars>>

\* socket.on("disconnect"): the socket has left all its rooms
Closed(c) ==
    /\ conns' = conns \ {c}
    /\ rooms' = [rooms EXCEPT ![c] = {}]
    /\ gone' = gone \cup {c}
    /\ failed' = FALSE
Disconnect(c) ==
    /\ c \in conns
    /\ Closed(c)
    /\ UNCHANGED <<storeVars, now, pending, resp, plain, issued, firstChat,
                   inbox, nextConn, joined, owner, clientVars>>

\* ------------------------------------------------------- request inputs
SeedNames == <<"alice", "bob", "carol">>
NoSuchUser == Len(SeedNames) + 1     \* an id that names no User row
NoSuchRow == MaxFriendships + 1      \* an id that names no Friendship row
NoSuchChat == MaxChats + 1           \* an id that names no Chat row
Contents == {"hi"}
\* a token signed with another key, and an issued token with its id swapped
Forged == {jwtSign(1, users[1].username, "attacker", now)}
Tampered == {[payload |-> [t.payload EXCEPT !.id = NoSuchUser], sig |-> t.sig] :
                t \in issued}
Bearer(tokens) == {<<"Bearer", t>> : t \in tokens}
\* what clients holding their own token send
OwnHeaders == Bearer(issued)
\* everything a client can put in the Authorization header
AnyHeaders == {<<>>, <<"Bearer">>} \cup Bearer(issued \cup Forged \cup Tampered)

\* ------------------------------------ the chat page (src/app/chat/page.js)
\* One signed-in page is modelled: the page of user Me.  Its emits are taken
\* together with the server's handling of them.
Me == 1
\* sockets ever opened while the page runs: the page opens one per effect run
MaxSockets == MaxConns + 1
\* { user, token } of useAuth(): what login stored for Me
AuthUser == SafeUser(users[Me])
AuthToken == jwtSign(Me, SeedNames[Me], JWT_SECRET, 0)
\* authedFetch: Authorization: `Bearer ${token}`
AuthHeader == <<"Bearer", AuthToken>>

\* useEffect(..., [user, currentChatId]): the cleanup of the previous run, then
\* a new socket with a receiveMessage handler closed over currentChatId
RunEffect ==
    /\ effectDue
    /\ nextConn < MaxSockets
    /\ effectDue' = FALSE
    /\ socketRef' = nextConn + 1
    /\ handlerChatId' = currentChatId
    /\ handled' = 0
    /\ nextConn' = nextConn + 1
    /\ conns' = (conns \ {socketRef}) \cup {nextConn + 1}
    /\ rooms' = Append([c \in Sockets |-> IF c = socketRef THEN {} ELSE rooms[c]],
                       {OwnRoom(nextConn + 1)})
    /\ gone' = IF socketRef \in conns THEN gone \cup {socketRef} ELSE gone
    /\ inbox' = Append(inbox, <<>>)
    /\ owner' = Append(owner, Me)
    /\ failed' = FALSE
    /\ UNCHANGED <<storeVars, now, pending, resp, plain, issued, firstChat, joined,
                   currentChatId, selectedFriend, clientMessages, fetching>>

\* handleSelectFriend up to the await on authedFetch
SelectFriend(friend) ==
    /\ socketRef # 0
    /\ fetching = 0
    /\ selectedFriend' = friend
    /\ fetching' = friend
    /\ UNCHANGED <<storeVars, now, pending, resp, plain, issued, firstChat, relayVars,
                   socketRef, handlerChatId, currentChatId, clientMessages,
                   handled, effectDue>>

\* the dependency test of useEffect: the effect is due when currentChatId changed
DepsChanged(chatId) == chatId # currentChatId

\* handleSelectFriend after the await: res.ok, setMessages, setCurrentChatId
\* and the joinRoom emitted on socketRef.current
SelectFriendDone ==
    /\ fetching # 0
    /\ resp.route = "chats/find"
    /\ fetching' = 0
    /\ resp' = NoResp
    /\ IF resp.status = 200
       THEN /\ clientMessages' = resp.body.messages
            /\ currentChatId' = resp.body.id
            /\ effectDue' = (effectDue \/ DepsChanged(resp.body.id))
            /\ IF socketRef \in conns
               THEN Joined(socketRef, resp.body.id)
               ELSE UNCHANGED <<rooms, joined, failed>>
       ELSE UNCHANGED <<clientMessages, currentChatId, effectDue, rooms, joined,
                        failed>>
    /\ UNCHANGED <<storeVars, now, pending, plain, issued, firstChat,
                   conns, inbox, nextConn, gone, owner,
                   socketRef, handlerChatId, selectedFriend, handled>>

\* the test of the receiveMessage handler
Matches(incomingMessage) == incomingMessage.chatId = handlerChatId

\* socketRef.current.on("receiveMessage", ...): the handler takes the next
\* event delivered to the page's socket
ReceiveMessage ==
    /\ socketRef \in conns
    /\ handled < Len(inbox[socketRef])
    /\ handled' = handled + 1
    /\ clientMessages' =
          IF Matches(inbox[socketRef][handled + 1])
          THEN Append(clientMessages, inbox[socketRef][handled + 1])
          ELSE clientMessages
    /\ UNCHANGED <<storeVars, now, pending, resp, plain, issued, firstChat, relayVars,
                   socketRef, handlerChatId, currentChatId, selectedFriend,
                   fetching, effectDue>>

\* handleSendMessage: the sendMessage emit and the optimistic update
HandleSendMessage(newMessage) ==
    /\ currentChatId # 0
    /\ socketRef \in conns
    /\ Persisted(socketRef, currentChatId, AuthUser.id, newMessage)
    /\ clientMessages' = Append(clientMessages,
          [chatId |-> currentChatId, authorId |-> AuthUser.id,
           content |-> newMessage,
           author |-> [id |-> AuthUser.id, username |-> AuthUser.username,
                       avatarUrl |-> AuthUser.avatarUrl]])
    /\ UNCHANGED <<users, friendships, chats, now, resp, plain, issued, firstChat,
                   conns, rooms, nextConn, joined, gone, owner,
                   socketRef, handlerChatId, currentChatId, selectedFriend,
                   handled, fetching, effectDue>>

\* ------------------------------------------------------- initial states
SeedEmails == <<"a@x.com", "b@x.com", "c@x.com">>
SeedPassword(i) == (i % NumPasswords) + 1
SeedUser(i) == [id |-> i, username |-> SeedNames[i], email |-> SeedEmails[i],
                passwordHash |-> bcryptHash(SeedPassword(i), i % 2),
                avatarUrl |-> NoAvatar]
\* the store after n signups at time 0 and the chat lookups that made cs
InitServer(n, cs) ==
    /\ users = [i \in 1..n |-> SeedUser(i)]
    /\ plain = [i \in 1..n |-> SeedPassword(i)]
    /\ issued = {jwtSign(i, SeedNames[i], JWT_SECRET, 0) : i \in 1..n}
    /\ friendships = <<>>
    /\ chats = cs
    /\ firstChat = {[pair |-> cs[i], id |-> i] : i \in 1..Len(cs)}
    /\ messages = <<>>
    /\ now = 0
    /\ pending = [s \in Slots |-> Idle]
    /\ resp = NoResp
    /\ conns = {}
    /\ rooms = <<>>
    /\ inbox = <<>>
    /\ nextConn = 0
    /\ joined = {}
    /\ gone = {}
    /\ owner = <<>>
    /\ failed = FALSE
\* the useState and useRef initial values of the chat page
InitPage ==
    /\ socketRef = 0
    /\ handlerChatId = 0
    /\ currentChatId = 0
    /\ selectedFriend = 0
    /\ clientMessages = <<>>
    /\ handled = 0
    /\ fetching = 0
\* no chat page is open
InitWith(n, cs) == InitServer(n, cs) /\ InitPage /\ effectDue = FALSE

\* ------------------------------ SignupSpec: interleaved signups, empty store
InitSignup == InitWith(0, <<>>)
NextSignup ==
    \/ \E username \in Usernames \cup {Missing}, email \in Emails \cup {Missing},
          password \in {1, NoPassword}, hasFile \in BOOLEAN :
          SignupStart(username, email, password, hasFile, 0)
    \/ \E s \in Slots : SignupCreate(s)
SignupSpec == InitSignup /\ [][NextSignup]_vars

\* ---------------------- LoginSpec: signups one after another, and logins
InitLogin == InitWith(0, <<>>)
NextLogin ==
    \/ \E username \in Usernames, email \in Emails, password \in Passwords,
          salt \in Salts :
          NoneInflight /\ SignupStart(username, email, password, FALSE, salt)
    \/ \E s \in Slots : SignupCreate(s)
    \/ \E email \in Emails \cup {Missing}, password \in Passwords \cup {NoPassword} :
          Login(email, password)
LoginSpec == InitLogin /\ [][NextLogin]_vars

\* ------------- Spec: the protected routes served one after another, 2 users
Init == InitWith(2, <<>>)
Next ==
    \/ \E header \in AnyHeaders, username \in Queries \cup {NoQuery} :
          NoneInflight /\ UsersFind(header, username)
    \/ \E header \in AnyHeaders, receiverId \in UserIds \cup {NoSuchUser} :
          NoneInflight /\ FriendsRequest(header, receiverId)
    \/ \E s \in Slots : FriendshipCreate(s)
    \/ \E header \in AnyHeaders, friendshipId \in {1, NoSuchRow},
          status \in Statuses \cup {"PENDING", Missing} :
          NoneInflight /\ FriendsRespond(header, friendshipId, status)
    \/ \E header \in AnyHeaders : NoneInflight /\ FriendsPending(header)
    \/ \E header \in AnyHeaders : NoneInflight /\ FriendsAll(header)
    \/ \E header \in AnyHeaders, friendId \in UserIds \cup {NoSuchUser} :
          NoneInflight /\ ChatsFind(header, friendId)
    \/ \E s \in Slots : ChatCreate(s)
    \/ Tick
Spec == Init /\ [][Next]_vars

\* ------ FriendSeqSpec: the friend routes served one after another, 3 users
InitFriendSeq == InitWith(3, <<>>)
NextFriendSeq ==
    \/ \E header \in OwnHeaders \cup {<<>>}, receiverId \in UserIds \cup {NoSuchUser} :
          NoneInflight /\ FriendsRequest(header, receiverId)
    \/ \E s \in Slots : FriendshipCreate(s)
    \/ \E header \in OwnHeaders \cup {<<>>},
          friendshipId \in 1..MaxFriendships \cup {NoSuchRow},
          status \in Statuses \cup {"PENDING"} :
          NoneInflight /\ FriendsRespond(header, friendshipId, status)
    \/ \E header \in OwnHeaders \cup {<<>>} : NoneInflight /\ FriendsPending(header)
    \/ \E header \in OwnHeaders \cup {<<>>} : NoneInflight /\ FriendsAll(header)
FriendSeqSpec == InitFriendSeq /\ [][NextFriendSeq]_vars

\* ------------- FriendSpec: friend requests whose steps interleave, 2 users
InitFriend == InitWith(2, <<>>)
NextFriend ==
    \/ \E header \in OwnHeaders, receiverId \in UserIds :
          FriendsRequest(header, receiverId)
    \/ \E s \in Slots : FriendshipCreate(s)
    \/ \E header \in OwnHeaders, friendshipId \in 1..MaxFriendships,
          status \in Statuses :
          FriendsRespond(header, friendshipId, status)
FriendSpec == InitFriend /\ [][NextFriend]_vars

\* --------- ChatSeqSpec: chat lookups served one after another, 3 users
InitChatSeq == InitWith(3, <<>>)
NextChatSeq ==
    \/ \E header \in OwnHeaders \cup {<<>>}, friendId \in UserIds \cup {NoSuchUser} :
          NoneInflight /\ ChatsFind(header, friendId)
    \/ \E s \in Slots : ChatCreate(s)
ChatSeqSpec == InitChatSeq /\ [][NextChatSeq]_vars

\* --------------- ChatSpec: chat lookups whose steps interleave, 2 users
InitChat == InitWith(2, <<>>)
NextChat ==
    \/ \E header \in OwnHeaders, friendId \in UserIds \cup {NoSuchUser} :
          ChatsFind(header, friendId)
    \/ \E s \in Slots : ChatCreate(s)
ChatSpec == InitChat /\ [][NextChat]_vars

\* ------------- RelaySpec: the realtime relay over one chat of two users
InitRelay == InitWith(2, <<{1, 2}>>)
NextRelay ==
    \/ \E u \in {1} : Connect(u)
    \/ \E c \in Sockets, chatId \in {1, NoSuchChat} : JoinRoom(c, chatId)
    \/ \E c \in Sockets, chatId \in {1, NoSuchChat}, authorId \in {1, NoSuchUser},
          content \in Contents :
          SendMessage(c, chatId, authorId, content)
    \/ \E s \in Slots : Emit(s)
    \/ \E c \in Sockets : Disconnect(c)
RelaySpec == InitRelay /\ [][NextRelay]_vars

\* ------ ApiSpec: every endpoint and the relay, one request after another
InitApi == InitWith(1, <<>>)
NextApi ==
    \/ \E username \in Usernames :
          NoneInflight /\ SignupStart(username, "b@x.com", 1, TRUE, 1)
    \/ \E s \in Slots : SignupCreate(s)
    \/ \E email \in Emails, password \in Passwords :
          NoneInflight /\ Login(email, password)
    \/ \E header \in OwnHeaders :
          NoneInflight /\ UsersFind(header, "")
    \/ \E header \in OwnHeaders :
          NoneInflight /\ FriendsRequest(header, 2)
    \/ \E s \in Slots : FriendshipCreate(s)
    \/ \E header \in OwnHeaders, status \in Statuses :
          NoneInflight /\ FriendsRespond(header, 1, status)
    \/ \E header \in OwnHeaders : NoneInflight /\ FriendsPending(header)
    \/ \E header \in OwnHeaders : NoneInflight /\ FriendsAll(header)
    \/ \E header \in OwnHeaders :
          NoneInflight /\ ChatsFind(header, 2)
    \/ \E s \in Slots : ChatCreate(s)
    \/ NoneInflight /\ Connect(1)
    \/ \E c \in Sockets :
          NoneInflight /\ ChatExists(1) /\ JoinRoom(c, 1)
    \/ \E c \in Sockets, content \in Contents :
          NoneInflight /\ ChatExists(1) /\ SendMessage(c, 1, owner[c], content)
    \/ \E s \in Slots : Emit(s)
ApiSpec == InitApi /\ [][NextApi]_vars

\* ---- ClientSpec: the chat page of user Me over its chats with users 2 and
\* 3, and the sockets of another client signed in as user 2
Other == Me + 1
InitClient == InitServer(3, <<{Me, 2}, {Me, 3}>>) /\ InitPage /\ effectDue = TRUE
NextClient ==
    \/ RunEffect
    \/ \E friend \in UserIds \ {Me} : SelectFriend(friend)
    \/ fetching # 0 /\ resp = NoResp /\ ChatsFind(AuthHeader, fetching)
    \/ SelectFriendDone
    \/ ReceiveMessage
    \/ \E newMessage \in Contents : HandleSendMessage(newMessage)
    \/ (\A c \in Sockets : owner[c] # Other) /\ Connect(Other)
    \/ \E c \in Sockets, chatId \in 1..Len(chats) :
          owner[c] = Other /\ Other \in chats[chatId] /\ JoinRoom(c, chatId)
    \/ \E c \in Sockets, chatId \in 1..Len(chats), authorId \in {Me, Other},
          content \in Contents :
          /\ owner[c] = Other /\ Other \in chats[chatId]
          /\ SendMessage(c, chatId, authorId, content)
    \/ \E s \in Slots : Emit(s)
ClientSpec == InitClient /\ [][NextClient]_vars

\* =================================================================
\* Properties
\* =================================================================
\* the Friendship rows between two users, in either direction
RowsBetween(a, b) ==
    {i \in 1..Len(friendships) :
        {friendships[i].requesterId, friendships[i].receiverId} = {a, b}}
\* the step answered a request to the route after the gate let it through
Answered(route) == resp'.route = route /\ Len(resp'.user) > 0

\* C1: a sendMessage that is persisted leaves its emit scheduled, and the emit
\* delivers the stored Message row to exactly the sockets that emitted
\* joinRoom(chatId) before and have not disconnected, the sender included if
\* it joined, and to no other socket.
C1_PersistThenDeliverToRoom ==
    [][/\ Len(messages') > Len(messages) =>
            \E s \in Slots :
                /\ pending[s] = Idle
                /\ pending'[s].op = "emit"
                /\ pending'[s].id = Len(messages')
                /\ pending'[s].chatId = messages'[Len(messages')].chatId
       /\ \A s \in Slots :
            (pending[s].op = "emit" /\ pending'[s] = Idle) =>
                LET p == pending[s]
                    audience == {c \in Sockets :
                                    <<c, p.chatId>> \in joined /\ c \notin gone}
                IN /\ p.id \in 1..Len(messages)
                   /\ messages[p.id].chatId = p.chatId
                   /\ \A c \in Sockets :
                        inbox'[c] = IF c \in audience
                                    THEN Append(inbox[c],
                                           [id |-> p.id, chatId |-> p.chatId,
                                            authorId |-> messages[p.id].authorId,
                                            content |-> messages[p.id].content,
                                            author |-> Summary(messages[p.id].authorId)])
                                    ELSE inbox[c]]_vars
\* the sender joined and got its own message; a connected socket that joined
\* another room only got nothing
C1_Witness ==
    \E c, d \in Sockets :
        /\ c # d
        /\ <<c, 1>> \in joined
        /\ Len(inbox[c]) > 0
        /\ d \in conns
        /\ <<d, NoSuchChat>> \in joined
        /\ <<d, 1>> \notin joined
        /\ inbox[d] = <<>>
        /\ NoneInflight

\* C2: served one after another, a friend request between two distinct users
\* who already have a Friendship row, in either direction and of any status,
\* is answered 409 and creates no row.
C2_SecondRequestConflicts ==
    [][Answered("friends/request") =>
          LET a == resp'.user[1].id
              b == resp'.req.receiverId
          IN (a # b /\ RowsBetween(a, b) # {}) =>
                (resp'.status = 409 /\ friendships' = friendships)]_vars
\* the reverse request after the first one was declined
C2_Witness ==
    /\ resp.route = "friends/request"
    /\ resp.status = 409
    /\ \E i \in 1..Len(friendships) :
          /\ friendships[i].requesterId = resp.req.receiverId
          /\ friendships[i].receiverId = resp.user[1].id
          /\ friendships[i].status = "DECLINED"

\* C3: there is at most one Friendship row per unordered pair of users, for
\* every interleaving of the friend-request handlers' findFirst and create.
C3_OneFriendshipPerPair ==
    \A i, j \in 1..Len(friendships) :
        i # j => {friendships[i].requesterId, friendships[i].receiverId}
                 # {friendships[j].requesterId, friendships[j].receiverId}

\* C4: served one after another, every chat lookup between two distinct
\* existing users after the first answers 200 with the chat id the first
\* lookup between them answered with, and creates no Chat row.
C4_FindOrCreateIdempotent ==
    [][Answered("chats/find") =>
          LET a == resp'.user[1].id
              b == resp'.req.friendId
          IN \A e \in firstChat :
                (a # b /\ e.pair = {a, b}) =>
                    /\ resp'.status = 200
                    /\ resp'.body.id = e.id
                    /\ chats' = chats]_vars
\* a lookup answered with the older of two chats: a repeated lookup
C4_Witness ==
    /\ resp.route = "chats/find"
    /\ resp.status = 200
    /\ Len(chats) = 2
    /\ resp.body.id = 1
    /\ resp.user[1].id # resp.req.friendId
    /\ chats[1] = {resp.user[1].id, resp.req.friendId}
    /\ [pair |-> chats[1], id |-> 1] \in firstChat

\* C5: there is at most one Chat per unordered pair of users, for every
\* interleaving of the chat-lookup handlers' findFirst and create.
C5_OneChatPerPair ==
    \A i, j \in 1..Len(chats) :
        (i # j /\ Cardinality(chats[i]) = 2) => chats[i] # chats[j]

\* C6: a respond with a valid status by a caller who is not the receiver of the
\* named Friendship changes no Friendship row and is answered 500.
C6_NonReceiverRespondFails ==
    [][Answered("friends/respond") =>
          LET caller == resp'.user[1].id
              id == resp'.req.friendshipId
          IN (/\ resp'.req.status \in {"ACCEPTED", "DECLINED"}
              /\ id \in 1..Len(friendships)
              /\ friendships[id].receiverId # caller) =>
                 (friendships' = friendships /\ resp'.status = 500)]_vars
\* a third user tried to answer a request between two others
C6_Witness ==
    /\ resp.route = "friends/respond"
    /\ resp.status = 500
    /\ resp.req.status \in {"ACCEPTED", "DECLINED"}
    /\ resp.req.friendshipId \in 1..Len(friendships)
    /\ resp.user[1].id # friendships[resp.req.friendshipId].receiverId
    /\ resp.user[1].id # friendships[resp.req.friendshipId].requesterId

\* C7: a Friendship row is created PENDING, a step changes a row's status only
\* from PENDING to ACCEPTED or DECLINED, and ACCEPTED and DECLINED never change.
C7_ResolvedIsTerminal ==
    [][/\ Len(friendships') >= Len(friendships)
       /\ \A i \in 1..Len(friendships') :
            IF i > Len(friendships)
            THEN friendships'[i].status = "PENDING"
            ELSE \/ friendships'[i].status = friendships[i].status
                 \/ /\ friendships[i].status = "PENDING"
                    /\ friendships'[i].status \in {"ACCEPTED", "DECLINED"}]_vars

\* no two User rows share a username or an email
UsersUnique ==
    \A i, j \in 1..Len(users) :
        i # j => (users[i].username # users[j].username /\ users[i].email # users[j].email)

\* C8: usernames and emails are unique across User rows in every state, and a
\* signup with all three fields whose username or email an existing user has
\* is answered 409 and leaves the User table as it was, also when the steps of
\* several signups interleave.
C8_DuplicateSignupConflicts ==
    /\ []UsersUnique
    /\ [][(/\ resp'.route = "signup"
           /\ resp'.req.username # "" /\ resp'.req.email # "" /\ resp'.req.password # 0
           /\ \E i \in 1..Len(users) :
                \/ users[i].username = resp'.req.username
                \/ users[i].email = resp'.req.email) =>
              (resp'.status = 409 /\ users' = users)]_vars
\* a signup that passed validation before another with the same email was
\* stored, and then met the conflict
C8_Witness ==
    /\ resp.route = "signup"
    /\ resp.status = 409
    /\ \E i \in 1..Len(users) :
          users[i].email = resp.req.email /\ users[i].username # resp.req.username
    /\ \E s \in Slots : pending[s] # Idle

\* C9: login with the email of a signed-up user and the password given at
\* signup answers 200 with a token the gate accepts and decodes to that user's
\* id and username; with any other password it answers 401 without a token;
\* with an email of no user it answers 404.
C9_LoginChecksPassword ==
    [][(resp'.route = "login" /\ resp'.req.email # "" /\ resp'.req.password # 0) =>
          LET owners == {i \in 1..Len(users) : users[i].email = resp'.req.email} IN
          /\ owners = {} => resp'.status = 404
          /\ \A i \in owners :
                IF resp'.req.password = plain[i]
                THEN /\ resp'.status = 200
                     /\ LET gate == authenticateToken(<<"Bearer", resp'.body.token>>, now')
                        IN /\ gate.status = 0
                           /\ gate.user[1].id = i
                           /\ gate.user[1].username = users[i].username
                ELSE /\ resp'.status = 401
                     /\ "token" \notin DOMAIN resp'.body]_vars
\* the second user logged in
C9_Witness ==
    /\ resp.route = "login"
    /\ resp.status = 200
    /\ Len(users) = 2
    /\ resp.body.user.id = 2
    /\ plain[1] # plain[2]

\* C10: on every protected route a request without a token is answered 401 and
\* one whose token the server did not issue or that has expired is answered
\* 403, both without the handler running or the store changing; a handler runs
\* only with req.user equal to the payload of an unexpired token the server
\* issued.
ProtectedRoutes == {"users/find", "friends/request", "friends/respond",
                    "friends/pending", "friends/all", "chats/find"}
\* req.user is the payload of a token the server issued and that is still valid
FromIssued(header, user) ==
    /\ Len(header) >= 2
    /\ header[2] \in issued
    /\ user = <<header[2].payload>>
Legit(header, user) == FromIssued(header, user) /\ now < header[2].payload.exp
\* the step is the arrival of a request, not the continuation of a handler
Arrival == \A s \in Slots : pending[s] # Idle => pending'[s] = pending[s]
C10_GateBeforeHandler ==
    [][/\ (resp'.route \in ProtectedRoutes /\ Arrival) =>
            LET header == resp'.req.header IN
            /\ Len(header) < 2 =>
                  (resp'.status = 401 /\ UNCHANGED <<storeVars, pending>>)
            /\ (Len(header) >= 2 /\ (header[2] \notin issued \/ now >= header[2].payload.exp)) =>
                  (resp'.status = 403 /\ UNCHANGED <<storeVars, pending>>)
            /\ resp'.status \notin {401, 403} => Legit(header, resp'.user)
       /\ \A s \in Slots :
            (pending[s] = Idle /\ pending'[s] # Idle) =>
                Legit(pending'[s].req.header, pending'[s].user)
       /\ storeVars' # storeVars =>
            (\/ \E s \in Slots : /\ pending'[s] = Idle
                                 /\ pending[s] # Idle
                                 /\ FromIssued(pending[s].req.header, pending[s].user)
             \/ /\ resp'.route = "friends/respond"
                /\ Legit(resp'.req.header, resp'.user))]_vars
\* a token the server issued was refused once it had expired
C10_Witness ==
    /\ resp.route \in ProtectedRoutes
    /\ resp.status = 403
    /\ resp.req.header[2] \in issued
    /\ Len(chats) > 0
    /\ Len(friendships) > 0

\* ----------------------------------------------------------------- C11
Sensitive == {"password", "passwordHash"}
Range(seq) == {seq[k] : k \in 1..Len(seq)}
\* the user objects inside the body of a successful response
UsersIn(r) ==
    IF r.route = "none" \/ r.status >= 400 THEN {}
    ELSE IF r.route \in {"signup", "login"} THEN {r.body.user}
    ELSE IF r.route \in {"users/find", "friends/all"} THEN Range(r.body)
    ELSE IF r.route = "friends/pending" THEN {row.requester : row \in Range(r.body)}
    ELSE IF r.route = "chats/find" THEN {m.author : m \in Range(r.body.messages)}
    ELSE {}
\* the other objects of a response body: the body itself, the rows and
\* messages it lists, the token's payload
ObjectsIn(r) ==
    IF r.route = "none" THEN {}
    ELSE IF r.route \in ProtectedRoutes /\ r.status \in {401, 403} THEN {}
    ELSE IF r.status >= 400 THEN {r.body}
    ELSE IF r.route \in {"signup", "login"} THEN {r.body, r.body.token.payload}
    ELSE IF r.route \in {"friends/request", "friends/respond"} THEN {r.body}
    ELSE IF r.route = "friends/pending" THEN Range(r.body)
    ELSE IF r.route = "chats/find" THEN {r.body} \cup Range(r.body.messages)
    ELSE {}
\* the receiveMessage payloads delivered so far
Payloads == UNION {Range(inbox[c]) : c \in Sockets}
\* C11: no response body and no receiveMessage payload has a password or
\* passwordHash field; signup and login answer with the User row less its
\* passwordHash, every other endpoint and every receiveMessage expose a user
\* as {id, username, avatarUrl} only.
C11_NoPasswordExposed ==
    /\ \A o \in ObjectsIn(resp) \cup UsersIn(resp) : DOMAIN o \cap Sensitive = {}
    /\ \A u \in UsersIn(resp) :
          IF resp.route \in {"signup", "login"}
          THEN /\ DOMAIN u = {"id", "username", "email", "avatarUrl"}
               /\ \A k \in DOMAIN u : u[k] = users[u.id][k]
          ELSE u = Summary(u.id)
    /\ \A m \in Payloads :
          /\ DOMAIN m \cap Sensitive = {}
          /\ m.author = Summary(m.authorId)
          /\ DOMAIN m.author = {"id", "username", "avatarUrl"}
\* a login answers with the account of a user whose hash is stored, after a
\* receiveMessage has been delivered to a socket
C11_Witness ==
    /\ resp.route = "login" /\ resp.status = 200
    /\ "passwordHash" \in DOMAIN users[resp.body.user.id]
    /\ Payloads # {}

\* ----------------------------------------------------------------- C12
\* C12: a sendMessage whose prisma.message.create fails adds no Message row,
\* schedules no emit, delivers nothing to any socket (no receiveMessage, no
\* error event to the sender) and leaves every connection and its rooms as
\* they were; afterwards the server still handles joinRoom and sendMessage
\* on the socket that failed and on every other connected socket.
C12_FailedSendLeavesNoTrace ==
    /\ [][failed' =>
            /\ messages' = messages
            /\ pending' = pending
            /\ inbox' = inbox
            /\ conns' = conns /\ rooms' = rooms]_vars
    /\ [](failed =>
            \A c \in conns :
               /\ ENABLED JoinRoom(c, 1)
               /\ ENABLED SendMessage(c, NoSuchChat, 1, "hi")
               /\ (Len(messages) < MaxMessages /\ FreeSlots # {}
                     => ENABLED SendMessage(c, 1, 1, "hi")))
\* a sendMessage has just failed on one of two connected sockets, both of
\* which are in the room of chat 1 and have received nothing
C12_Witness ==
    /\ failed
    /\ Cardinality(conns) = 2
    /\ \A c \in conns : 1 \in rooms[c] /\ inbox[c] = <<>>

\* ----------------------------------------------------------------- C16
\* C16: every Chat has exactly two distinct participants, both of them users;
\* a chat lookup never creates a Chat with fewer, also when friendId is the
\* caller's own id, and a lookup whose friendId names no user creates none.
C16_TwoDistinctParticipants ==
    \A i \in 1..Len(chats) : Cardinality(chats[i]) = 2 /\ chats[i] \subseteq UserIds

\* ----------------------------------------------------------------- C13
\* the handler that the step resumes in slot s
Resumes(s, op) == pending[s] # Idle /\ pending[s].op = op /\ pending'[s] = Idle
\* C13: every record a step creates or changes names the caller as its acting
\* user: a new Friendship has the token's user as requester, a status change
\* is made by the token's user as receiver, a new Chat has the token's user
\* among its participants, and a new Message, sent over a socket, has the
\* user whose client opened that socket as author.
C13_ActingUserIsCaller ==
    [][/\ Len(friendships') > Len(friendships) =>
            \E s \in Slots :
               /\ Resumes(s, "friendship.create")
               /\ friendships'[Len(friendships')].requesterId = pending[s].user[1].id
       /\ \A i \in 1..Len(friendships) :
            friendships'[i] # friendships[i] =>
               /\ resp'.route = "friends/respond"
               /\ resp'.user # <<>>
               /\ friendships[i].receiverId = resp'.user[1].id
       /\ Len(chats') > Len(chats) =>
            \E s \in Slots :
               /\ Resumes(s, "chat.create")
               /\ pending[s].user[1].id \in chats'[Len(chats')]
       /\ Len(messages') > Len(messages) =>
            \E s \in Slots :
               /\ pending[s] = Idle /\ pending'[s].op = "emit"
               /\ messages'[Len(messages')].authorId = owner[pending'[s].from]
      ]_vars

\* ----------------------------------------------------------------- C14
\* C14: once a chat is open on the page, the page's live socket (the one its
\* receiveMessage handler is registered on) is connected and in the room of
\* the open chat, and the page keeps the same socket for the whole session,
\* also when selecting a friend changes currentChatId.
C14_LiveSocketInOpenRoom ==
    /\ [](currentChatId # 0 =>
            socketRef \in conns /\ currentChatId \in rooms[socketRef])
    /\ [][socketRef # 0 => socketRef' = socketRef]_vars

\* ----------------------------------------------------------------- C15
\* C15: when the page handles a receiveMessage whose chatId is not the
\* currentChatId at that moment, the transcript stays as it is, also after
\* the user has switched from one friend's chat to another's.
C15_OtherChatDropped ==
    [][handled' = handled + 1 /\ socketRef' = socketRef
          /\ inbox[socketRef][handled'].chatId # currentChatId
        => clientMessages' = clientMessages]_vars

\* ----------------------------------------------------------------- C17
\* the transcript entries, and the Message rows, of a chat that name Me as
\* author
OwnEntries(chatId) ==
    {k \in 1..Len(clientMessages) :
        clientMessages[k].chatId = chatId /\ clientMessages[k].authorId = Me}
OwnRows(chatId) ==
    {i \in 1..Len(messages) :
        messages[i].chatId = chatId /\ messages[i].authorId = Me}
\* C17: the page's transcript shows every message the page sent once: per
\* chat it never holds more entries authored by the page's user than there
\* are Message rows of that author, so the optimistic entry and the echo of
\* the same message are never both in it.
C17_SentShownOnce ==
    \A chatId \in 1..Len(chats) :
        Cardinality(OwnEntries(chatId)) <= Cardinality(OwnRows(chatId))
====
